---- MODULE Spec2Model ----
(***************************************************************************)
(* A model of ManualWikilinkPlugin (src/main.ts): the editor-change        *)
(* handler that reverts an automatic [[wikilink]] -> [text](path)          *)
(* conversion, its re-entrancy latch and the deferred latch reset.         *)
(*                                                                         *)
(* A string is a sequence of one-character strings.  Offsets named "ch",   *)
(* "index" or "from" are the 0-based offsets of the source; sequences are  *)
(* indexed from 1, so the character at offset k is s[k + 1].               *)
(***************************************************************************)
EXTENDS Integers, Sequences, FiniteSets, TLC

\* ------------------------------------------------------------------------
\* Bounds of the model
\* ------------------------------------------------------------------------

\* the longest link path drawn for an initial line, in characters
MaxPathLen == 4

\* how many synchronous re-entrant notifications the host delivers per call
MaxReentry == 2

\* how many successful replaceRange calls a run may hold
MaxRewrites == 2

\* ------------------------------------------------------------------------
\* String primitives of the host language
\* ------------------------------------------------------------------------

\* String.prototype.substring(a, b) with 0 <= a, b: [a, b) in 0-based offsets
substring(s, a, b) ==
    LET lo == IF a < b THEN a ELSE b
        hi0 == IF a < b THEN b ELSE a
        hi == IF hi0 > Len(s) THEN Len(s) ELSE hi0
    IN  IF lo >= hi THEN << >> ELSE SubSeq(s, lo + 1, hi)

\* String.prototype.substring(a): from offset a to the end
substringFrom(s, a) == substring(s, a, Len(s))

RECURSIVE indexOfFrom(_, _, _)
\* the first 0-based offset >= k at which character c occurs, or -1
indexOfFrom(s, c, k) ==
    IF k >= Len(s) THEN -1
    ELSE IF s[k + 1] = c THEN k
    ELSE indexOfFrom(s, c, k + 1)

\* String.prototype.indexOf(c)
indexOf(s, c) == indexOfFrom(s, c, 0)

RECURSIVE lastIndexOfFrom(_, _, _)
\* the last 0-based offset <= k at which character c occurs, or -1
lastIndexOfFrom(s, c, k) ==
    IF k < 0 THEN -1
    ELSE IF s[k + 1] = c THEN k
    ELSE lastIndexOfFrom(s, c, k - 1)

\* String.prototype.lastIndexOf(c)
lastIndexOf(s, c) == lastIndexOfFrom(s, c, Len(s) - 1)

\* the lower-case form of one character of the alphabet
lowerChar(c) ==
    CASE c = "M" -> "m"
      [] c = "D" -> "d"
      [] c = "N" -> "n"
      [] OTHER -> c

\* String.prototype.toLowerCase()
toLowerCase(s) == [k \in 1..Len(s) |-> lowerChar(s[k])]

\* String.prototype.endsWith(suffix)
endsWith(s, suffix) ==
    /\ Len(s) >= Len(suffix)
    /\ SubSeq(s, Len(s) - Len(suffix) + 1, Len(s)) = suffix

\* ------------------------------------------------------------------------
\* decodeURIComponent
\* ------------------------------------------------------------------------

\* the hexadecimal digits among the characters of the model's alphabet
isHex(c) == c \in {"0", "2", "d", "D"}

hexVal(c) ==
    CASE c = "0" -> 0
      [] c = "2" -> 2
      [] c \in {"d", "D"} -> 13

\* the character of an ASCII code unit that two hex digits of the alphabet
\* can write; control characters are named
asciiChar(b) ==
    CASE b = 32 -> " "
      [] b = 34 -> "QUOTE"
      [] b = 45 -> "-"
      [] b = 0 -> "NUL"
      [] b = 2 -> "STX"
      [] b = 13 -> "CR"

URIError == [ok |-> FALSE, str |-> << >>]

RECURSIVE decodeFrom(_, _, _)
\* decodeURIComponent from 0-based offset k on, acc the text decoded so far.
\* An escape is "%" and two hex digits; a code unit of 128 or more opens a
\* UTF-8 sequence whose continuation bytes (%80..%BF) the alphabet cannot
\* write, so it is malformed, as is a "%" not followed by two hex digits.
decodeFrom(s, k, acc) ==
    IF k >= Len(s) THEN [ok |-> TRUE, str |-> acc]
    ELSE IF s[k + 1] # "%" THEN decodeFrom(s, k + 1, Append(acc, s[k + 1]))
    ELSE IF k + 2 >= Len(s) THEN URIError
    ELSE IF ~(isHex(s[k + 2]) /\ isHex(s[k + 3])) THEN URIError
    ELSE LET b == 16 * hexVal(s[k + 2]) + hexVal(s[k + 3])
         IN  IF b >= 128 THEN URIError
             ELSE decodeFrom(s, k + 3, Append(acc, asciiChar(b)))

decodeURIComponent(s) == decodeFrom(s, 0, << >>)

\* ------------------------------------------------------------------------
\* mdLinkRegex = /\[([^\]]+)\]\(([^)]+\)?)\)/ and String.prototype.match
\* ------------------------------------------------------------------------

NoMatch == [found |-> FALSE, index |-> 0, length |-> 0, g1 |-> << >>, g2 |-> << >>]

\* The match of mdLinkRegex that starts at 0-based offset i, if there is one.
\* The backtracking search has one way to succeed from a given start: group 1
\* excludes "]" and is followed by "]", so it runs to the first "]"; the run
\* [^)]+ excludes ")" and is followed by ")", so it runs to the first ")";
\* the greedy \)? takes a second ")" when one follows, and is given back
\* otherwise.
matchAt(s, i) ==
    IF i >= Len(s) \/ s[i + 1] # "[" THEN NoMatch
    ELSE
    LET j == indexOfFrom(s, "]", i + 1)
    IN  IF j = -1 \/ j = i + 1 THEN NoMatch
        ELSE IF j + 1 >= Len(s) \/ s[j + 2] # "(" THEN NoMatch
        ELSE
        LET p == j + 2
            q == indexOfFrom(s, ")", p)
        IN  IF q = -1 \/ q = p THEN NoMatch
            ELSE IF q + 1 < Len(s) /\ s[q + 2] = ")"
            THEN [found |-> TRUE, index |-> i, length |-> q + 2 - i,
                  g1 |-> substring(s, i + 1, j), g2 |-> substring(s, p, q + 1)]
            ELSE [found |-> TRUE, index |-> i, length |-> q + 1 - i,
                  g1 |-> substring(s, i + 1, j), g2 |-> substring(s, p, q)]

RECURSIVE matchFrom(_, _)
\* the leftmost match starting at offset i or later
matchFrom(s, i) ==
    IF i >= Len(s) THEN NoMatch
    ELSE IF matchAt(s, i).found THEN matchAt(s, i)
    ELSE matchFrom(s, i + 1)

\* textBeforeCursor.match(mdLinkRegex): a regex without the g flag gives the
\* leftmost match
match(s) == matchFrom(s, 0)

\* ------------------------------------------------------------------------
\* The heuristic of handleEditorChange
\* ------------------------------------------------------------------------

\* decodedLinkPath with the directory prefix removed
afterLastSlash(decodedLinkPath) ==
    LET lastSlashIndex == lastIndexOf(decodedLinkPath, "/")
    IN  IF lastSlashIndex # -1
        THEN substringFrom(decodedLinkPath, lastSlashIndex + 1)
        ELSE decodedLinkPath

\* hashIndex: the offset of the first "#" in the name left after the last "/"
hashIndex(decodedLinkPath) == indexOf(afterLastSlash(decodedLinkPath), "#")

\* linkBaseName: the file name without directory, reference and ".md"
linkBaseName(decodedLinkPath) ==
    LET name == afterLastSlash(decodedLinkPath)
        h == indexOf(name, "#")
        noRef == IF h # -1 THEN substring(name, 0, h) ELSE name
    IN  IF endsWith(toLowerCase(noRef), <<".", "m", "d">>)
        THEN substring(noRef, 0, Len(noRef) - 3)
        ELSE noRef

\* headingOrBlockRef: taken from decodedLinkPath at hashIndex, an offset into
\* the name left after the last "/"
headingOrBlockRef(decodedLinkPath) ==
    substringFrom(decodedLinkPath, hashIndex(decodedLinkPath) + 1)

isAutoConvertedWikilink(displayText, decodedLinkPath) ==
    IF displayText = linkBaseName(decodedLinkPath) THEN TRUE
    ELSE IF hashIndex(decodedLinkPath) # -1
         THEN IF displayText = headingOrBlockRef(decodedLinkPath) THEN TRUE
              ELSE TRUE
         ELSE FALSE

\* a faulty variant: the reference of the path is re-embedded, not the
\* display text
contentWithReference(displayText, decodedLinkPath) ==
    IF hashIndex(decodedLinkPath) # -1
    THEN linkBaseName(decodedLinkPath) \o <<"#">>
            \o headingOrBlockRef(decodedLinkPath)
    ELSE linkBaseName(decodedLinkPath)

\* originalWikilinkContent: the base name, and "#" and the display text when
\* hashIndex !== -1
originalWikilinkContent(displayText, decodedLinkPath) ==
    IF hashIndex(decodedLinkPath) # -1
    THEN linkBaseName(decodedLinkPath) \o <<"#">> \o displayText
    ELSE linkBaseName(decodedLinkPath)

\* a faulty variant: the replacement is again a parenthetical link
markdownLink(displayText, decodedLinkPath) ==
    <<"[">> \o displayText \o <<"]", "(">>
            \o originalWikilinkContent(displayText, decodedLinkPath) \o <<")">>

\* wikilink = `[[${originalWikilinkContent}]]`
wikilink(displayText, decodedLinkPath) ==
    <<"[", "[">> \o originalWikilinkContent(displayText, decodedLinkPath)
                 \o <<"]", "]">>

\* ------------------------------------------------------------------------
\* The lines an edit can leave behind
\* ------------------------------------------------------------------------

\* the pieces link paths are drawn from: a name, a stray "%", a directory
\* step, a heading reference, the extension in both cases, an escaped space
PathTokens ==
    { <<"N">>, <<"%">>, <<"/", "N">>, <<"#", "t">>, <<".", "m", "d">>,
      <<".", "M", "D">>, <<"%", "2", "0">> }

RECURSIVE PathsUpTo(_)
\* every concatenation of path tokens of at most n characters
PathsUpTo(n) ==
    IF n <= 0 THEN { << >> }
    ELSE { << >> } \cup
         { t \o p : t \in { u \in PathTokens : Len(u) <= n },
                    p \in PathsUpTo(n - 1) } 

Paths == { p \in PathsUpTo(MaxPathLen) : Len(p) >= 1 /\ Len(p) <= MaxPathLen }

DisplayTexts == { <<"N">>, <<"t">>, <<"N", " ">> }

\* what precedes the link on its line: nothing, plain text, a stray "[",
\* an earlier link
PreTexts == { << >>, <<"x">>, <<"[">>, <<"[", "N", "]", "(", "N", ")">> }

\* what follows the link on its line
PostTexts == { << >>, <<")">> }

LineTexts ==
    { pre \o <<"[">> \o d \o <<"]", "(">> \o p \o <<")">> \o post :
        pre \in PreTexts, d \in DisplayTexts, p \in Paths, post \in PostTexts }

\* the line above the edited one
OtherLine == <<"[", "N", "]", "(", "N", ")">>

\* getConfig('useMarkdownLinks'): true, false, or an exception
Prefs == {"true", "false", "fail"}

\* ------------------------------------------------------------------------
\* State
\* ------------------------------------------------------------------------

VARIABLES
    lines,        \* the editor's buffer, a sequence of lines
    cursor,       \* the editor's cursor, [line, ch], both 0-based
    isReplacing,  \* the plugin's latch
    rafQueue,     \* callbacks requestAnimationFrame holds for a later frame
    pc,           \* where the outermost handler call stands
    call,         \* what the outermost handler call saw and did
    nested,       \* what the re-entrant calls made during it did
    rewrites      \* replaceRange calls that succeeded so far

vars == <<lines, cursor, isReplacing, rafQueue, pc, call, nested, rewrites>>

NoCall ==
    [ made |-> FALSE, latch |-> FALSE, pref |-> "unread", before |-> << << >>, << >> >>,
      pos |-> [line |-> 0, ch |-> 0], afterRewrite |-> FALSE,
      readCursor |-> FALSE, readLine |-> FALSE, kind |-> "none",
      from |-> 0, text |-> << >>, replaceCalls |-> 0, replaceOk |-> FALSE,
      setCursorCalls |-> 0, setCursorArg |-> [line |-> 0, ch |-> 0],
      threw |-> "none" ]

NoNested == [calls |-> 0, reads |-> 0, mutations |-> 0]

Init ==
    /\ \E text \in LineTexts : \E ch \in 0..Len(text) :
        /\ lines = <<OtherLine, text>>
        /\ cursor = [line |-> 1, ch |-> ch]
    /\ isReplacing = FALSE
    /\ rafQueue = 0
    /\ pc = "idle"
    /\ call = NoCall
    /\ nested = NoNested
    /\ rewrites = 0

\* ------------------------------------------------------------------------
\* handleEditorChange up to its first call of a mutating host primitive
\* ------------------------------------------------------------------------

\* what a call that returns at the latch has done: nothing
Latched ==
    [readConfig |-> FALSE, readCursor |-> FALSE, readLine |-> FALSE,
     kind |-> "latched", from |-> 0, text |-> << >>]

\* a faulty variant: any match counts, wherever it ends
endsAnywhere(m, cur) == TRUE

\* matchEndIndex === cursor.ch
endsAtCursor(m, cur) == m.index + m.length = cur.ch

\* The handler from getCursor on: the heuristic on the cursor's line.
Heuristic(buf, cur) ==
    LET lineText == buf[cur.line + 1]
        textBeforeCursor == substring(lineText, 0, cur.ch)
        m == match(textBeforeCursor)
        looked == [Latched EXCEPT !.readConfig = TRUE, !.readCursor = TRUE,
                                  !.readLine = TRUE]
    IN
    IF ~m.found THEN [looked EXCEPT !.kind = "noMatch"]
    ELSE IF ~endsAtCursor(m, cur) THEN [looked EXCEPT !.kind = "notAtCursor"]
    ELSE
    LET displayText == m.g1
        decoded == decodeURIComponent(m.g2)
    IN
    IF ~decoded.ok THEN [looked EXCEPT !.kind = "URIError"]
    ELSE IF ~isAutoConvertedWikilink(displayText, decoded.str)
         THEN [looked EXCEPT !.kind = "notConverted"]
    ELSE [looked EXCEPT !.kind = "rewrite", !.from = m.index,
                        !.text = wikilink(displayText, decoded.str)]

\* a faulty variant: the catch goes on as if the preference were true
ConfiguredAssumingTrue(pref, buf, cur) ==
    IF pref = "false"
    THEN [Latched EXCEPT !.readConfig = TRUE, !.kind = "wikilinkNative"]
    ELSE Heuristic(buf, cur)

\* The handler from getConfig on: the catch returns, and so does a
\* preference that is not true.
Configured(pref, buf, cur) ==
    IF pref = "fail"
    THEN [Latched EXCEPT !.readConfig = TRUE, !.kind = "configError"]
    ELSE IF pref # "true"
    THEN [Latched EXCEPT !.readConfig = TRUE, !.kind = "wikilinkNative"]
    ELSE Heuristic(buf, cur)

\* a faulty variant: the handler without its first statement
PlanWithoutLatch(latch, pref, buf, cur) == Configured(pref, buf, cur)

\* The handler's run on (latch, preference, buffer, cursor) up to the point
\* where it either returns, throws, or is about to set the latch and call
\* replaceRange: which host reads it made, how it ended ("kind"), and for
\* kind = "rewrite" the start offset and text of the replacement.
Plan(latch, pref, buf, cur) ==
    IF latch THEN Latched ELSE Configured(pref, buf, cur)

\* a faulty variant: the rest of the line goes with the replaced span
replaceToEndOfLine(buf, text, line, from, to) ==
    [buf EXCEPT ![line + 1] = substring(@, 0, from) \o text]

\* editor.replaceRange(text, {line, ch: from}, {line, ch: to}) on one line
replaceRange(buf, text, line, from, to) ==
    [buf EXCEPT ![line + 1] =
        substring(@, 0, from) \o text \o substringFrom(@, to)]

\* newCursorPos
newCursorPos(line, from, text) == [line |-> line, ch |-> from + Len(text)]

\* where the host leaves a cursor that stood at the end of a replaced range:
\* at the start or at the end of the inserted text
MappedCursors(line, from, text) ==
    { [line |-> line, ch |-> from], [line |-> line, ch |-> from + Len(text)] }

\* a faulty variant: the reset is scheduled at the end of the try block
resetsOnSuccess(threw) == IF threw = "none" THEN 1 ELSE 0

\* the finally block: one reset callback handed to requestAnimationFrame,
\* however the try block ended
resetsScheduled(threw) == 1

\* ------------------------------------------------------------------------
\* Actions
\* ------------------------------------------------------------------------

\* what the handler records of a call that made plan p
Started(latch, pref, p) ==
    [ NoCall EXCEPT
        !.made = TRUE, !.latch = latch,
        !.pref = IF p.readConfig THEN pref ELSE "unread",
        !.before = lines, !.pos = cursor, !.afterRewrite = (rewrites > 0),
        !.readCursor = p.readCursor, !.readLine = p.readLine,
        !.kind = p.kind, !.from = p.from, !.text = p.text,
        !.threw = IF p.kind = "URIError" THEN "URIError" ELSE "none" ]

\* The host delivers 'editor-change' to handleEditorChange on a turn of its
\* own.  A call that does not reach replaceRange runs to its end here; one
\* that does sets the latch and calls replaceRange, which either throws (the
\* finally block then schedules the reset and the exception leaves the
\* handler) or changes the buffer and, still inside replaceRange, lets the
\* host notify its listeners.
EditorChange ==
    /\ pc = "idle"
    /\ rewrites < MaxRewrites
    /\ \E pref \in Prefs :
        LET p == Plan(isReplacing, pref, lines, cursor)
            c == Started(isReplacing, pref, p)
        IN  /\ nested' = NoNested
            /\ IF p.kind # "rewrite"
               THEN /\ call' = c
                    /\ UNCHANGED <<lines, cursor, isReplacing, rafQueue, pc, rewrites>>
               ELSE
               /\ isReplacing' = TRUE
               /\ \/ /\ lines' = replaceRange(lines, p.text, cursor.line, p.from, cursor.ch)
                     /\ cursor' \in MappedCursors(cursor.line, p.from, p.text)
                     /\ call' = [c EXCEPT !.replaceCalls = 1, !.replaceOk = TRUE]
                     /\ rewrites' = rewrites + 1
                     /\ pc' = "replaceRange"
                     /\ UNCHANGED rafQueue
                  \/ /\ call' = [c EXCEPT !.replaceCalls = 1, !.threw = "replaceRange"]
                     /\ rafQueue' = rafQueue + resetsScheduled("replaceRange")
                     /\ UNCHANGED <<lines, cursor, pc, rewrites>>

\* While replaceRange or setCursor of the outermost call is running, the host
\* delivers 'editor-change' again: a nested, synchronous call of the handler
\* on the buffer as it stands.  A nested call that reaches replaceRange is
\* run to its end in this one step.
ReentrantChange ==
    /\ pc \in {"replaceRange", "setCursor"}
    /\ nested.calls < MaxReentry
    /\ \E pref \in Prefs :
        LET p == Plan(isReplacing, pref, lines, cursor)
        IN  /\ IF p.kind # "rewrite"
               THEN /\ nested' = [nested EXCEPT
                                    !.calls = @ + 1,
                                    !.reads = @ + (IF p.readCursor THEN 1 ELSE 0)]
                    /\ UNCHANGED <<lines, cursor, isReplacing, rafQueue, rewrites>>
               ELSE /\ rewrites < MaxRewrites
                    /\ nested' = [nested EXCEPT !.calls = @ + 1, !.reads = @ + 1,
                                                !.mutations = @ + 1]
                    /\ isReplacing' = TRUE
                    /\ lines' = replaceRange(lines, p.text, cursor.line, p.from, cursor.ch)
                    /\ cursor' = newCursorPos(cursor.line, p.from, p.text)
                    /\ rafQueue' = rafQueue + resetsScheduled("none")
                    /\ rewrites' = rewrites + 1
            /\ UNCHANGED <<pc, call>>

\* replaceRange returns to the outermost call, which calls setCursor with
\* newCursorPos; setCursor either throws (finally, then out) or moves the
\* cursor and lets the host notify its listeners.
ReplaceRangeReturns ==
    /\ pc = "replaceRange"
    /\ LET arg == newCursorPos(call.pos.line, call.from, call.text)
       IN  \/ /\ cursor' = arg
              /\ call' = [call EXCEPT !.setCursorCalls = 1, !.setCursorArg = arg]
              /\ pc' = "setCursor"
              /\ UNCHANGED rafQueue
           \/ /\ call' = [call EXCEPT !.setCursorCalls = 1, !.setCursorArg = arg,
                                      !.threw = "setCursor"]
              /\ rafQueue' = rafQueue + resetsScheduled("setCursor")
              /\ pc' = "idle"
              /\ UNCHANGED cursor
    /\ UNCHANGED <<lines, isReplacing, nested, rewrites>>

\* setCursor returns; the try block is over and the finally block schedules
\* the reset; the outermost call returns.
SetCursorReturns ==
    /\ pc = "setCursor"
    /\ rafQueue' = rafQueue + resetsScheduled("none")
    /\ pc' = "idle"
    /\ UNCHANGED <<lines, cursor, isReplacing, call, nested, rewrites>>

\* A later frame: the host runs one callback requestAnimationFrame holds.
AnimationFrame ==
    /\ pc = "idle"
    /\ rafQueue > 0
    /\ isReplacing' = FALSE
    /\ rafQueue' = rafQueue - 1
    /\ UNCHANGED <<lines, cursor, pc, call, nested, rewrites>>

Next ==
    \/ EditorChange
    \/ ReentrantChange
    \/ ReplaceRangeReturns
    \/ SetCursorReturns
    \/ AnimationFrame

Spec == Init /\ [][Next]_vars

\* The host runs the handler's primitives to their end and runs every
\* callback handed to requestAnimationFrame on some later frame.
LiveSpec ==
    /\ Init
    /\ [][Next]_vars
    /\ WF_vars(ReplaceRangeReturns)
    /\ WF_vars(SetCursorReturns)
    /\ WF_vars(AnimationFrame)

\* ------------------------------------------------------------------------
\* What the claims speak of, stated apart from the handler
\* ------------------------------------------------------------------------

\* the line and the text before the cursor that the outermost call met
callLine == call.before[call.pos.line + 1]
callPrefix == SubSeq(callLine, 1, call.pos.ch)

\* the outermost call ran with the latch open and the preference read as
\* parenthetical-native
Armed == call.made /\ ~call.latch /\ call.pref = "true"

\* s without everything up to its last "/"
NameOf(s) ==
    LET k == CHOOSE k \in 0..Len(s) :
                /\ k = 0 \/ s[k] = "/"
                /\ \A j \in (k + 1)..Len(s) : s[j] # "/"
    IN  SubSeq(s, k + 1, Len(s))

\* s cut at its first "#"
BeforeHash(s) ==
    LET k == CHOOSE k \in 1..(Len(s) + 1) :
                /\ k = Len(s) + 1 \/ s[k] = "#"
                /\ \A j \in 1..(k - 1) : s[j] # "#"
    IN  SubSeq(s, 1, k - 1)

\* s without a trailing ".md" in any case
WithoutMd(s) ==
    IF /\ Len(s) >= 3
       /\ s[Len(s) - 2] = "."
       /\ s[Len(s) - 1] \in {"m", "M"}
       /\ s[Len(s)] \in {"d", "D"}
    THEN SubSeq(s, 1, Len(s) - 3)
    ELSE s

\* the base name of a decoded path
BaseName(decoded) == WithoutMd(BeforeHash(NameOf(decoded)))

\* a decoded path has a fragment when a "#" stands in its name
HasFragment(decoded) == \E k \in 1..Len(NameOf(decoded)) : NameOf(decoded)[k] = "#"

\* a decoded path holds a "#" anywhere
HasHash(decoded) == \E k \in 1..Len(decoded) : decoded[k] = "#"

\* the shape of an auto-converted link
Converted(displayText, decoded) ==
    displayText = BaseName(decoded) \/ HasFragment(decoded)

\* the leftmost link in the text before the cursor
Leftmost == match(callPrefix)
LeftmostDecoded == decodeURIComponent(Leftmost.g2)

\* the leftmost link before the cursor ends at the cursor and has the
\* shape of an auto-converted link
LeftmostTriggers ==
    /\ Leftmost.found
    /\ Leftmost.index + Leftmost.length = call.pos.ch
    /\ LeftmostDecoded.ok
    /\ Converted(Leftmost.g1, LeftmostDecoded.str)

\* some link, leftmost or not, ends at the cursor and has the shape of an
\* auto-converted link
SomeLinkAtCursorConverted ==
    \E i \in 0..(call.pos.ch - 1) :
        LET m == matchAt(callPrefix, i)
            d == decodeURIComponent(m.g2)
        IN  /\ m.found
            /\ m.index + m.length = call.pos.ch
            /\ d.ok
            /\ Converted(m.g1, d.str)

\* ------------------------------------------------------------------------
\* C1
\* ------------------------------------------------------------------------

\* C1: while replaceRange or setCursor of a rewriting call runs, the latch
\* is true and no reset is scheduled yet, and the re-entrant calls made so
\* far read nothing of the editor, changed no text and moved no cursor.
C1_ReentrantCallsIgnored ==
    /\ nested.mutations = 0
    /\ nested.reads = 0
    /\ pc # "idle" => isReplacing /\ rafQueue = 0
    /\ pc # "idle" =>
        lines = replaceRange(call.before, call.text, call.pos.line,
                             call.from, call.pos.ch)

\* a rewrite during which the host re-entered the handler twice, once
\* inside replaceRange and once inside setCursor or twice inside one
C1_Witness ==
    /\ pc = "setCursor"
    /\ nested.calls >= 2
    /\ call.replaceOk

\* ------------------------------------------------------------------------
\* C2
\* ------------------------------------------------------------------------

\* C2 as stated: a call touches the editor only when the latch is false,
\* the preference is true, and the leftmost link before the cursor ends at
\* the cursor and is classified as auto-converted; and then a finished call
\* has made exactly one replaceRange and one setCursor call.
C2_AsStated ==
    call.made /\ pc = "idle" =>
        IF Armed /\ LeftmostTriggers
        THEN call.replaceCalls = 1 /\ call.setCursorCalls = 1
        ELSE call.replaceCalls = 0 /\ call.setCursorCalls = 0

\* C2 amended: as stated, but the one setCursor call is made only when
\* replaceRange returned; when replaceRange throws, setCursor is not called.
C2_MutatesOnlyWhenTriggered ==
    call.made =>
        IF Armed /\ LeftmostTriggers
        THEN /\ call.replaceCalls = 1
             /\ pc = "idle" =>
                  call.setCursorCalls = (IF call.replaceOk THEN 1 ELSE 0)
        ELSE /\ call.replaceCalls = 0
             /\ call.setCursorCalls = 0
             /\ lines = call.before
             /\ cursor = call.pos

\* a call with an earlier link on the line that does not end at the cursor
C2_Witness ==
    /\ Armed
    /\ Leftmost.found
    /\ Leftmost.index + Leftmost.length < call.pos.ch
    /\ call.replaceCalls = 0

\* ------------------------------------------------------------------------
\* C3
\* ------------------------------------------------------------------------

\* C3: with the latch false and the preference true, a link that ends at
\* the cursor and has the auto-converted shape is rewritten, whatever
\* precedes it on the line.
C3_LinkAtCursorRewritten ==
    Armed /\ SomeLinkAtCursorConverted => call.replaceCalls = 1

\* ------------------------------------------------------------------------
\* C4
\* ------------------------------------------------------------------------

\* C4: the text a rewrite inserts is "[[" base "]]" for a path without a
\* fragment and "[[" base "#" display "]]" for one with a fragment, base
\* being the decoded path after its last "/", cut at its first "#", less a
\* trailing ".md" in any case; a link without a fragment is rewritten only
\* when its display text is the base name, and a link with a fragment that
\* the handler reaches is always rewritten.
C4_ReplacementText ==
    LET d == LeftmostDecoded.str
        display == Leftmost.g1
    IN  /\ call.replaceCalls = 1 =>
            /\ call.text =
                 IF HasFragment(d)
                 THEN <<"[", "[">> \o BaseName(d) \o <<"#">> \o display \o <<"]", "]">>
                 ELSE <<"[", "[">> \o BaseName(d) \o <<"]", "]">>
            /\ ~HasFragment(d) => display = BaseName(d)
        /\ ( /\ Armed
             /\ Leftmost.found
             /\ Leftmost.index + Leftmost.length = call.pos.ch
             /\ LeftmostDecoded.ok
             /\ HasFragment(d) ) => call.replaceCalls = 1

\* a rewrite of a directory-qualified link whose display text is not its
\* fragment
C4_Witness ==
    /\ call.replaceCalls = 1
    /\ HasFragment(LeftmostDecoded.str)
    /\ Leftmost.g1 # headingOrBlockRef(LeftmostDecoded.str)
    /\ Len(NameOf(LeftmostDecoded.str)) < Len(LeftmostDecoded.str)

\* ------------------------------------------------------------------------
\* C5
\* ------------------------------------------------------------------------

\* C5: once replaceRange has returned, the cursor's line is its old text up
\* to the start of the leftmost link, then the inserted text, then its old
\* text from the old cursor on, every other line is as it was, and the
\* position handed to setCursor is on the same line right after the inserted
\* text, whose last two characters are "]]"; the cursor stands there once
\* setCursor has returned.
C5_SpanAndCursor ==
    call.replaceOk =>
        LET old == callLine
            new == lines[call.pos.line + 1]
            start == Leftmost.index
            n == Len(call.text)
        IN  /\ Len(lines) = Len(call.before)
            /\ \A k \in 1..Len(lines) :
                 k # call.pos.line + 1 => lines[k] = call.before[k]
            /\ Len(new) = start + n + (Len(old) - call.pos.ch)
            /\ SubSeq(new, 1, start) = SubSeq(old, 1, start)
            /\ SubSeq(new, start + 1, start + n) = call.text
            /\ SubSeq(new, start + n + 1, Len(new)) =
                 SubSeq(old, call.pos.ch + 1, Len(old))
            /\ SubSeq(new, start + n - 1, start + n) = <<"]", "]">>
            /\ pc = "idle" /\ call.threw = "none" => call.setCursorCalls = 1
            /\ call.setCursorCalls = 1 =>
                 call.setCursorArg = [line |-> call.pos.line, ch |-> start + n]
            /\ call.setCursorCalls = 1 /\ call.threw = "none" =>
                 cursor = [line |-> call.pos.line, ch |-> start + n]

\* a finished rewrite that started after the beginning of its line and left
\* text after the cursor
C5_Witness ==
    /\ pc = "idle"
    /\ call.replaceOk
    /\ call.threw = "none"
    /\ call.from > 0
    /\ call.pos.ch < Len(callLine)

\* ------------------------------------------------------------------------
\* C6
\* ------------------------------------------------------------------------

\* C6: once the preference has been read, no step of the handler before
\* replaceRange raises an error.
C6_DetectionNeverThrows ==
    call.made /\ call.pref = "true" => call.threw # "URIError"

\* ------------------------------------------------------------------------
\* C7
\* ------------------------------------------------------------------------

\* C7: a call whose read of the preference fails returns normally, has read
\* neither cursor nor line, has called neither replaceRange nor setCursor,
\* and leaves buffer and cursor as they were, the latch false and no reset
\* scheduled.
C7_ConfigUnavailable ==
    call.made /\ call.pref = "fail" =>
        /\ pc = "idle"
        /\ call.threw = "none"
        /\ ~call.readCursor
        /\ ~call.readLine
        /\ call.replaceCalls = 0
        /\ call.setCursorCalls = 0
        /\ lines = call.before
        /\ cursor = call.pos
        /\ ~isReplacing
        /\ rafQueue = 0

\* the read failed on a line where a preference of true would have rewritten
C7_Witness ==
    /\ call.made
    /\ call.pref = "fail"
    /\ LeftmostTriggers

\* ------------------------------------------------------------------------
\* C8
\* ------------------------------------------------------------------------

\* C8: whenever the latch is true and the handler has returned or thrown, a
\* reset is scheduled, also after a failure of replaceRange or setCursor,
\* which ends the call with no second attempt; and a latch that is true
\* becomes false again.
C8_LatchEventuallyReset ==
    /\ [](isReplacing /\ pc = "idle" => rafQueue >= 1)
    /\ [](call.threw \in {"replaceRange", "setCursor"} =>
            pc = "idle" /\ call.replaceCalls = 1)
    /\ (isReplacing ~> ~isReplacing)

\* the latch is open again after a call in which setCursor threw
C8_Witness ==
    /\ call.threw = "setCursor"
    /\ ~isReplacing
    /\ rafQueue = 0

\* ------------------------------------------------------------------------
\* C9
\* ------------------------------------------------------------------------

\* C9: a link that the handler reaches and whose decoded path holds a "#"
\* anywhere, also before a "/", is rewritten, and to a text that ends in
\* "#", the display text and "]]".
C9_HashMeansFragment ==
    ( /\ Armed
      /\ Leftmost.found
      /\ Leftmost.index + Leftmost.length = call.pos.ch
      /\ LeftmostDecoded.ok
      /\ HasHash(LeftmostDecoded.str) ) =>
        LET tail == <<"#">> \o Leftmost.g1 \o <<"]", "]">>
        IN  /\ call.replaceCalls = 1
            /\ Len(call.text) >= Len(tail)
            /\ SubSeq(call.text, Len(call.text) - Len(tail) + 1, Len(call.text)) = tail

\* ------------------------------------------------------------------------
\* C10
\* ------------------------------------------------------------------------

\* C10: a call made on the buffer and cursor a rewrite left behind, with the
\* latch false again and the preference true, calls neither replaceRange nor
\* setCursor.
C10_RewriteIdempotent ==
    Armed /\ call.afterRewrite =>
        /\ call.replaceCalls = 0
        /\ call.setCursorCalls = 0
        /\ rewrites = 1

\* such a call was made, after a rewrite that ran to its end
C10_Witness ==
    /\ Armed
    /\ call.afterRewrite
    /\ call.readLine
    /\ cursor.ch >= 2
    /\ SubSeq(lines[cursor.line + 1], cursor.ch - 1, cursor.ch) = <<"]", "]">>

====
